---- MODULE Spec2Model ----
(***************************************************************************)
(* Model of the debt payoff simulator of ynab-reports: the plan generator  *)
(* (src/python/payoff.py), the history reconstruction                      *)
(* (src/python/history.py) and the snapshot store (src/python/db.py).      *)
(*                                                                         *)
(* Numbers.  The program computes with Python floats.  The model keeps     *)
(* every currency amount as an integer number of currency units and every  *)
(* annual interest rate as an integer number of percent (0.20 is 20); the  *)
(* one place where the program leaves that grid, the monthly interest      *)
(* -old_balance * (interest_rate / 12), is rounded down to a whole unit.   *)
(* A data frame is a sequence of records (one record per row, in row       *)
(* order); account names are unique within a frame.                        *)
(***************************************************************************)
EXTENDS Integers, Sequences, FiniteSets, TLC

VARIABLES
    pc,                   \* where the modelled call stands
    accounts_df,          \* the accounts handed to the call (the caller's frame)
    payoff_strategy,      \* strategy name given to get_payoff_strategy
    strategy,             \* the strategy get_payoff_strategy returned
    snowball_inc,         \* monthly snowball increment
    orig_total_balance,   \* generate_payoff_plan: sum of the input balances
    active_accounts_df,   \* generate_payoff_plan: balances entering the month
    active_snowball,      \* snowball pool entering the month
    cumulative_payments,  \* generate_payoff_plan: payments so far
    n,                    \* generate_payoff_plan: months simulated so far
    months,               \* generate_payoff_plan: the recorded months
    ordering_for_month,   \* result of get_ordering
    monthly_payments,     \* payment rows of calculate_month_payments
    monthly_payments_log, \* per account: the accumulators the log records
    new_balances_df,      \* result of get_new_balances
    snowball_increase,    \* result of get_snowball_increase
    current_balance,      \* reconstruct_balance_at_date: balance today
    transactions,         \* reconstruct_balance_at_date: the ledger
    target_date,          \* reconstruct_balance_at_date: the date asked for
    reconstructed_balance, \* reconstruct_balance_at_date: the value returned
    historical_snapshots, \* generate_historical_payoff_projections: its input
    plan_outcomes,        \* what generate_payoff_plan_fn does, call by call
    snapshot_index,       \* snapshots the projection loop has been through
    projections,          \* the projections collected so far
    payoff_snapshots,     \* db: rows of table payoff_snapshots
    account_snapshots,    \* db: rows of table account_snapshots
    sqlite_sequence,      \* db: last AUTOINCREMENT id given, per table
    db_call               \* db: the latest call and its arguments

payoff_vars == <<accounts_df, payoff_strategy, strategy, snowball_inc, orig_total_balance,
                 active_accounts_df, active_snowball, cumulative_payments, n,
                 months, ordering_for_month, monthly_payments,
                 monthly_payments_log, new_balances_df, snowball_increase>>

reconstruct_vars == <<current_balance, transactions, target_date,
                      reconstructed_balance>>

projection_vars == <<historical_snapshots, plan_outcomes, snapshot_index,
                     projections>>

history_vars == <<reconstruct_vars, projection_vars>>

db_vars == <<payoff_snapshots, account_snapshots, sqlite_sequence, db_call>>

vars == <<pc, payoff_vars, history_vars, db_vars>>

(***************************************************************************)
(* Bounds of the model and units.                                          *)
(***************************************************************************)
MaxAccounts == 2
MaxOrderLen == 4
MaxMonths == 6
RateScale == 100
MonthsPerYear == 12

(***************************************************************************)
(* Python and pandas helpers.                                              *)
(***************************************************************************)
Max(a, b) == IF a >= b THEN a ELSE b

Min(a, b) == IF a <= b THEN a ELSE b

RECURSIVE SumSeq(_)
SumSeq(s) == IF s = <<>> THEN 0 ELSE Head(s) + SumSeq(Tail(s))

Column(df, col) == [i \in 1..Len(df) |-> df[i][col]]

SumColumn(df, col) == SumSeq(Column(df, col))

\* Python's order on tuples of equal length
TupleLess(k1, k2) ==
    \E i \in 1..Len(k1) :
        /\ \A j \in 1..(i - 1) : k1[j] = k2[j]
        /\ k1[i] < k2[i]

\* one insertion of the descending sort: row i goes before the first row with
\* a strictly smaller key, so rows with equal keys keep their input order
InsertIndex(order, i, keys) ==
    LET smaller == {p \in 1..Len(order) : TupleLess(keys[order[p]], keys[i])}
        pos == IF smaller = {} THEN Len(order) + 1
               ELSE CHOOSE p \in smaller : \A q \in smaller : p <= q
    IN  SubSeq(order, 1, pos - 1) \o <<i>> \o SubSeq(order, pos, Len(order))

RECURSIVE ArgsortDescending(_, _)
ArgsortDescending(keys, k) ==
    IF k = 0 THEN <<>> ELSE InsertIndex(ArgsortDescending(keys, k - 1), k, keys)

\* df.sort_values(col, ascending=False), keys being the column sorted by
sort_values(df, keys) ==
    LET order == ArgsortDescending(keys, Len(df))
    IN  [p \in 1..Len(df) |-> df[order[p]]]

AccountRow(name, rate, bal, minp) ==
    [account |-> name, interest_rate |-> rate, balance |-> bal, min_payment |-> minp]

(***************************************************************************)
(* Ordering strategies.                                                    *)
(***************************************************************************)
valid_strategies == {"smart", "lowest_balance", "interest_rate"}

\* mutant: ascending=False left out, the sort ascends
DumbSnowballAscending(df) ==
    sort_values(df, [i \in 1..Len(df) |-> <<-df[i].balance>>])

DumbSnowball(df) == sort_values(df, [i \in 1..Len(df) |-> <<df[i].balance>>])

\* mutant: the group tags exchanged
custom_sort_key_tags_swapped(row) ==
    IF row.interest_rate = 0 THEN <<1, -row.balance>> ELSE <<0, row.balance>>

\* mutant: the signs of the balance exchanged
custom_sort_key_signs_swapped(row) ==
    IF row.interest_rate = 0 THEN <<0, row.balance>> ELSE <<1, -row.balance>>

custom_sort_key(row) ==
    IF row.interest_rate = 0 THEN <<0, -row.balance>> ELSE <<1, row.balance>>

\* mutant: the sort_key column is not dropped
SmartSnowballKeepsSortKey(df) ==
    LET copy_df == [i \in 1..Len(df) |->
                      [account |-> df[i].account,
                       interest_rate |-> df[i].interest_rate,
                       balance |-> df[i].balance,
                       min_payment |-> df[i].min_payment,
                       sort_key |-> custom_sort_key(df[i])]]
    IN  sort_values(copy_df, Column(copy_df, "sort_key"))

SmartSnowball(df) ==
    LET copy_df == [i \in 1..Len(df) |->
                      [account |-> df[i].account,
                       interest_rate |-> df[i].interest_rate,
                       balance |-> df[i].balance,
                       min_payment |-> df[i].min_payment,
                       sort_key |-> custom_sort_key(df[i])]]
        df_sorted == sort_values(copy_df, Column(copy_df, "sort_key"))
    IN  [i \in 1..Len(df_sorted) |->
            AccountRow(df_sorted[i].account, df_sorted[i].interest_rate,
                       df_sorted[i].balance, df_sorted[i].min_payment)]

InterestRateSnowball(df) ==
    sort_values(df, [i \in 1..Len(df) |-> <<df[i].interest_rate>>])

\* mutant: the final else returns the default strategy
get_payoff_strategy_defaulting(strategy_name) ==
    IF strategy_name = "lowest_balance"
    THEN [raised |-> "", strategy |-> "DumbSnowball"]
    ELSE IF strategy_name = "interest_rate"
    THEN [raised |-> "", strategy |-> "InterestRateSnowball"]
    ELSE [raised |-> "", strategy |-> "SmartSnowball"]

\* what the call raises ("" when it returns) and the strategy it returns
get_payoff_strategy(strategy_name) ==
    IF strategy_name = "lowest_balance"
    THEN [raised |-> "", strategy |-> "DumbSnowball"]
    ELSE IF strategy_name = "interest_rate"
    THEN [raised |-> "", strategy |-> "InterestRateSnowball"]
    ELSE IF strategy_name = "smart"
    THEN [raised |-> "", strategy |-> "SmartSnowball"]
    ELSE [raised |-> "ValueError", strategy |-> "None"]

\* get_payoff_strategy(name).get_ordering(df), for a name it accepts
get_ordering(name, df) ==
    LET returned == get_payoff_strategy(name).strategy
    IN  IF returned = "DumbSnowball" THEN DumbSnowball(df)
        ELSE IF returned = "InterestRateSnowball" THEN InterestRateSnowball(df)
        ELSE SmartSnowball(df)

(***************************************************************************)
(* calculate_month_payments: the monthly payment allocator.                *)
(***************************************************************************)
\* mutant: min taken for max
OverflowToApplyMin(balance_after_min_payment, overflow) ==
    IF balance_after_min_payment < 0
    THEN Min(balance_after_min_payment, overflow)
    ELSE 0

OverflowToApply(balance_after_min_payment, overflow) ==
    IF balance_after_min_payment < 0
    THEN Max(balance_after_min_payment, overflow)
    ELSE 0

\* mutant: min taken for max
SnowballToApplyMin(balance_after_overflow, snowball_left) ==
    IF balance_after_overflow < 0
    THEN Min(balance_after_overflow, snowball_left)
    ELSE 0

SnowballToApply(balance_after_overflow, snowball_left) ==
    IF balance_after_overflow < 0
    THEN Max(balance_after_overflow, snowball_left)
    ELSE 0

\* mutant: the minimum payment is made whatever the balance
TotalPaymentAtLeastMinimum(balance, min_payment, overflow_to_apply, snowball_to_apply) ==
    Max(min_payment, Min(-balance, min_payment + overflow_to_apply + snowball_to_apply))

\* mutant: the cap at -balance left out
TotalPaymentUncapped(balance, min_payment, overflow_to_apply, snowball_to_apply) ==
    min_payment + overflow_to_apply + snowball_to_apply

TotalPayment(balance, min_payment, overflow_to_apply, snowball_to_apply) ==
    Min(-balance, min_payment + overflow_to_apply + snowball_to_apply)

\* mutant: the snowball applied to an account not taken off the pool
SnowballLeftNotReduced(snowball_left, snowball_to_apply) ==
    Max(0, snowball_left)

SnowballLeftAfter(snowball_left, snowball_to_apply) ==
    Max(0, snowball_left - snowball_to_apply)

\* mutant: the reset after a payment of 0 left out
OverflowAfterNoReset(overflow, overflow_to_apply, total_payment, offered) ==
    LET kept == Min(0, overflow - overflow_to_apply)
    IN  IF total_payment < offered
        THEN kept + (-(total_payment - offered))
        ELSE kept

\* mutant: the unused amount taken off the overflow
OverflowAfterDecreased(overflow, overflow_to_apply, total_payment, offered) ==
    LET kept == Min(0, overflow - overflow_to_apply)
        increased == IF total_payment < offered
                     THEN kept + (total_payment - offered)
                     ELSE kept
    IN  IF total_payment = 0 THEN 0 ELSE increased

\* the three updates of overflow that end the loop body; offered is
\* min_payment + overflow_to_apply + snowball_to_apply
OverflowAfter(overflow, overflow_to_apply, total_payment, offered) ==
    LET kept == Min(0, overflow - overflow_to_apply)
        increased == IF total_payment < offered
                     THEN kept + (-(total_payment - offered))
                     ELSE kept
    IN  IF total_payment = 0 THEN 0 ELSE increased

\* one pass of the loop body for row, from the accumulators in st
PaymentStep(st, row) ==
    LET balance_after_min_payment == row.balance + row.min_payment
        overflow_to_apply == OverflowToApply(balance_after_min_payment, st.overflow)
        balance_after_overflow == balance_after_min_payment + overflow_to_apply
        snowball_to_apply == SnowballToApply(balance_after_overflow, st.snowball_left)
        total_payment == TotalPayment(row.balance, row.min_payment,
                                      overflow_to_apply, snowball_to_apply)
        snowball_left == SnowballLeftAfter(st.snowball_left, snowball_to_apply)
        overflow == OverflowAfter(st.overflow, overflow_to_apply, total_payment,
                        row.min_payment + overflow_to_apply + snowball_to_apply)
    IN  [rows |-> Append(st.rows,
                     [account |-> row.account,
                      balance |-> row.balance,
                      min_payment |-> row.min_payment,
                      overflow |-> overflow_to_apply,
                      snowball |-> snowball_to_apply,
                      total_payment |-> total_payment]),
         log |-> Append(st.log,
                     [account |-> row.account,
                      overflow |-> st.overflow,
                      snowball_left |-> st.snowball_left,
                      balance_after_min_payment |-> balance_after_min_payment,
                      balance_after_overflow |-> balance_after_overflow,
                      overflow_after |-> overflow,
                      snowball_left_after |-> snowball_left]),
         snowball_left |-> snowball_left,
         overflow |-> overflow]

RECURSIVE PaymentLoop(_, _, _)
PaymentLoop(df, k, snowball) ==
    IF k = 0
    THEN [rows |-> <<>>, log |-> <<>>, snowball_left |-> snowball, overflow |-> 0]
    ELSE PaymentStep(PaymentLoop(df, k - 1, snowball), df[k])

calculate_month_payments(df, snowball) ==
    LET st == PaymentLoop(df, Len(df), snowball)
    IN  [payment_df |-> st.rows, log |-> st.log]

(***************************************************************************)
(* get_new_balances: the balance updater.                                  *)
(***************************************************************************)
\* df.loc[df["account"] == account, col].iloc[0]
FirstMatch(df, account, col) ==
    LET i == CHOOSE k \in 1..Len(df) :
                 /\ df[k].account = account
                 /\ \A j \in 1..(k - 1) : df[j].account # account
    IN  df[i][col]

Interest(old_balance, total_payment, interest_rate) ==
    IF old_balance + total_payment >= 0
    THEN 0
    ELSE ((-old_balance) * interest_rate) \div (MonthsPerYear * RateScale)

\* mutant: the principal payment subtracted from the balance
NewBalanceSignSlip(old_balance, total_payment, interest_rate) ==
    LET interest == Interest(old_balance, total_payment, interest_rate)
        principal_payment == total_payment - interest
    IN  old_balance - principal_payment

\* mutant: the interest not taken off the payment
NewBalanceInterestFree(old_balance, total_payment, interest_rate) ==
    old_balance + total_payment

NewBalance(old_balance, total_payment, interest_rate) ==
    LET interest == Interest(old_balance, total_payment, interest_rate)
        principal_payment == total_payment - interest
    IN  old_balance + principal_payment

\* mutant: the assignment without the row selection, every row written
SetBalanceEveryRow(df, account, new_balance) ==
    [i \in 1..Len(df) |-> [df[i] EXCEPT !.balance = new_balance]]

\* df.loc[df["account"] == account, "balance"] = new_balance
SetBalance(df, account, new_balance) ==
    [i \in 1..Len(df) |->
        IF df[i].account = account
        THEN [df[i] EXCEPT !.balance = new_balance]
        ELSE df[i]]

RECURSIVE NewBalancesLoop(_, _, _)
NewBalancesLoop(df, payments_df, k) ==
    IF k = 0 THEN df
    ELSE LET new_accounts_df == NewBalancesLoop(df, payments_df, k - 1)
             row == payments_df[k]
             old_balance == FirstMatch(df, row.account, "balance")
             interest_rate == FirstMatch(new_accounts_df, row.account, "interest_rate")
         IN  SetBalance(new_accounts_df, row.account,
                        NewBalance(old_balance, row.total_payment, interest_rate))

get_new_balances(df, payments_df) == NewBalancesLoop(df, payments_df, Len(payments_df))

(***************************************************************************)
(* Snowball increase: minimum payments freed by accounts paid off.         *)
(***************************************************************************)
\* mutant: the snowball the month's payments used is taken off the increase
get_snowball_increase_net(df, payments_df) ==
    SumColumn(SelectSeq(payments_df, LAMBDA row :
                  row.total_payment = -1 * row.balance /\ row.total_payment > 0),
              "min_payment")
        - SumColumn(payments_df, "snowball")

\* mutant: every paying account counted as paid off
PaidOffAnyPayment(row) == row.total_payment > 0

\* mutant: the sign of the balance forgotten
PaidOffSignForgotten(row) == row.total_payment = row.balance /\ row.total_payment > 0

PaidOff(row) == row.total_payment = -1 * row.balance /\ row.total_payment > 0

get_paid_off_accounts_this_round(df, payments_df) == SelectSeq(payments_df, PaidOff)

get_snowball_increase(df, payments_df) ==
    SumColumn(get_paid_off_accounts_this_round(df, payments_df), "min_payment")

(***************************************************************************)
(* Inputs: frames of up to a few accounts, row i named Names[i], its       *)
(* <<interest_rate, balance, min_payment>> drawn from a set of values.     *)
(***************************************************************************)
Names == <<"A", "B", "C", "D", "E">>

Frame(vals) ==
    [i \in 1..Len(vals) |-> AccountRow(Names[i], vals[i][1], vals[i][2], vals[i][3])]

Frames(maxlen, Values) ==
    UNION {{Frame(v) : v \in [1..k -> Values]} : k \in 1..maxlen}

\* generate_payoff_plan: debts at 0% and 24% with a minimum payment that is
\* below (1000 at 24%: 20 a month), equal to (500 at 24%: 10) or above a
\* month's interest, a debt with no minimum payment, an account in credit
PlanValues ==
    ({0, 24} \X {-1000, -500} \X {10, 400}) \cup {<<0, -500, 0>>, <<0, 300, 0>>}

SnowballStarts == {0, 100}

SnowballIncs == {0, 50}

\* get_payoff_strategy: the three names and two it does not know, one of
\* them differing from a known name in case only
StrategyNames == valid_strategies \cup {"highest_balance", "Smart"}

\* get_ordering: three balances at 0% and 22%, and one account at 20%
OrderValues == ({0, 22} \X {-900, -200, -50} \X {25}) \cup {<<20, -200, 25>>}

\* calculate_month_payments: minimum payments of either sign
AllocValues == {0, 20} \X {-500, -100, 0} \X {-100, -25, 25, 100}

AllocSnowballs == {-50, 0, 100}

\* no reconstruction is under way
ReconstructIdle ==
    /\ current_balance = 0
    /\ transactions = <<>>
    /\ target_date = <<>>
    /\ reconstructed_balance = 0

\* no projection batch is under way
ProjectionIdle ==
    /\ historical_snapshots = <<>>
    /\ plan_outcomes = <<>>
    /\ snapshot_index = 0
    /\ projections = <<>>

\* the database as init_db leaves a new file, no call made yet
DbEmpty ==
    /\ payoff_snapshots = {}
    /\ account_snapshots = {}
    /\ sqlite_sequence = [payoff_snapshots |-> 0, account_snapshots |-> 0]
    /\ db_call = [op |-> "init_db", calls |-> <<>>]

HistoryIdle == ReconstructIdle /\ ProjectionIdle /\ DbEmpty

NoResults ==
    /\ ordering_for_month = <<>>
    /\ monthly_payments = <<>>
    /\ monthly_payments_log = <<>>
    /\ new_balances_df = <<>>
    /\ snowball_increase = 0

(***************************************************************************)
(* generate_payoff_plan: Init is the state on entry to the loop, PlanMonth *)
(* one pass of the loop body with its stop test.                           *)
(***************************************************************************)
Init ==
    /\ pc = "running"
    /\ accounts_df \in Frames(MaxAccounts, PlanValues)
    /\ payoff_strategy \in valid_strategies
    /\ strategy = get_payoff_strategy(payoff_strategy).strategy
    /\ active_snowball \in SnowballStarts
    /\ snowball_inc \in SnowballIncs
    /\ orig_total_balance = SumColumn(accounts_df, "balance")
    /\ active_accounts_df = accounts_df
    /\ cumulative_payments = 0
    /\ n = 0
    /\ months = <<>>
    /\ NoResults
    /\ HistoryIdle

MinPaymentMade(acc) == acc.min_payment <= acc.total_payment

\* mutant: the stop test reads the balances the month started with
total_balance_before_month(entering_df, updated_df) ==
    SumColumn(entering_df, "balance")

\* total_balance, which the stop test reads: the sum of the new balances
total_balance_of_month(entering_df, updated_df) ==
    SumColumn(updated_df, "balance")

PlanMonth ==
    /\ pc = "running"
    /\ n < MaxMonths
    /\ LET ordering == get_ordering(payoff_strategy, active_accounts_df)
           paid == calculate_month_payments(ordering, active_snowball)
           payments == paid.payment_df
           new_balances == get_new_balances(active_accounts_df, payments)
           total_min_payments ==
               SumColumn(SelectSeq(payments, MinPaymentMade), "min_payment")
           total_overflow == SumColumn(payments, "overflow")
           total_payment == SumColumn(payments, "total_payment")
           total_balance == total_balance_of_month(active_accounts_df, new_balances)
           increase == get_snowball_increase(active_accounts_df, payments)
       IN  /\ n' = n + 1
           /\ ordering_for_month' = ordering
           /\ monthly_payments' = payments
           /\ monthly_payments_log' = paid.log
           /\ new_balances_df' = new_balances
           /\ snowball_increase' = increase
           /\ months' = Append(months,
                    [accounts |-> active_accounts_df,
                     month |-> n + 1,
                     snowball |-> active_snowball,
                     total_overflow |-> total_overflow,
                     payments |-> payments,
                     total_min_payments |-> total_min_payments,
                     total_payment |-> total_payment,
                     new_balances |-> new_balances])
           /\ active_accounts_df' = new_balances
           /\ active_snowball' = active_snowball + increase + snowball_inc
           /\ cumulative_payments' = cumulative_payments + total_payment
           /\ pc' = IF total_balance >= 0 THEN "done" ELSE "running"
    /\ UNCHANGED <<accounts_df, payoff_strategy, snowball_inc, orig_total_balance>>
    /\ UNCHANGED <<strategy, history_vars, db_vars>>

Next == PlanMonth

Spec == Init /\ [][Next]_vars

(***************************************************************************)
(* get_ordering applied to any frame under each strategy.                  *)
(***************************************************************************)
PlanIdle ==
    /\ snowball_inc = 0
    /\ orig_total_balance = 0
    /\ active_accounts_df = <<>>
    /\ cumulative_payments = 0
    /\ n = 0
    /\ months = <<>>

OrderInit ==
    /\ pc = "order_input"
    /\ accounts_df \in Frames(MaxOrderLen, OrderValues)
    /\ payoff_strategy \in StrategyNames
    /\ strategy = "None"
    /\ active_snowball = 0
    /\ PlanIdle
    /\ NoResults
    /\ HistoryIdle

\* get_payoff_strategy(payoff_strategy_name): returns a strategy or raises
GetPayoffStrategy ==
    /\ pc = "order_input"
    /\ LET call == get_payoff_strategy(payoff_strategy)
       IN  /\ strategy' = call.strategy
           /\ pc' = IF call.raised = "" THEN "strategy" ELSE call.raised
    /\ UNCHANGED <<accounts_df, payoff_strategy, snowball_inc, orig_total_balance,
                   active_accounts_df, active_snowball, cumulative_payments, n,
                   months, ordering_for_month, monthly_payments,
                   monthly_payments_log, new_balances_df, snowball_increase>>
    /\ UNCHANGED <<history_vars, db_vars>>

GetOrdering ==
    /\ pc = "strategy"
    /\ ordering_for_month' = get_ordering(payoff_strategy, accounts_df)
    /\ pc' = "ordered"
    /\ UNCHANGED <<accounts_df, payoff_strategy, snowball_inc, orig_total_balance,
                   active_accounts_df, active_snowball, cumulative_payments, n,
                   months, monthly_payments, monthly_payments_log,
                   new_balances_df, snowball_increase>>
    /\ UNCHANGED <<strategy, history_vars, db_vars>>

OrderNext == GetPayoffStrategy \/ GetOrdering

OrderSpec == OrderInit /\ [][OrderNext]_vars

(***************************************************************************)
(* One allocation round on any ordered frame and snowball pool:            *)
(* calculate_month_payments, then get_new_balances and                     *)
(* get_snowball_increase on its payment rows.                              *)
(***************************************************************************)
AllocInit ==
    /\ pc = "alloc_input"
    /\ accounts_df \in Frames(MaxAccounts, AllocValues)
    /\ payoff_strategy = "lowest_balance"
    /\ strategy = "DumbSnowball"
    /\ active_snowball \in AllocSnowballs
    /\ PlanIdle
    /\ NoResults
    /\ HistoryIdle

CalculateMonthPayments ==
    /\ pc = "alloc_input"
    /\ LET paid == calculate_month_payments(accounts_df, active_snowball)
       IN  /\ monthly_payments' = paid.payment_df
           /\ monthly_payments_log' = paid.log
    /\ pc' = "paid"
    /\ UNCHANGED <<accounts_df, payoff_strategy, snowball_inc, orig_total_balance,
                   active_accounts_df, active_snowball, cumulative_payments, n,
                   months, ordering_for_month, new_balances_df, snowball_increase>>
    /\ UNCHANGED <<strategy, history_vars, db_vars>>

GetNewBalances ==
    /\ pc = "paid"
    /\ new_balances_df' = get_new_balances(accounts_df, monthly_payments)
    /\ pc' = "updated"
    /\ UNCHANGED <<accounts_df, payoff_strategy, snowball_inc, orig_total_balance,
                   active_accounts_df, active_snowball, cumulative_payments, n,
                   months, ordering_for_month, monthly_payments,
                   monthly_payments_log, snowball_increase>>
    /\ UNCHANGED <<strategy, history_vars, db_vars>>

GetSnowballIncrease ==
    /\ pc = "updated"
    /\ snowball_increase' = get_snowball_increase(accounts_df, monthly_payments)
    /\ pc' = "increased"
    /\ UNCHANGED <<accounts_df, payoff_strategy, snowball_inc, orig_total_balance,
                   active_accounts_df, active_snowball, cumulative_payments, n,
                   months, ordering_for_month, monthly_payments,
                   monthly_payments_log, new_balances_df>>
    /\ UNCHANGED <<strategy, history_vars, db_vars>>

AllocNext == CalculateMonthPayments \/ GetNewBalances \/ GetSnowballIncrease

AllocSpec == AllocInit /\ [][AllocNext]_vars

(***************************************************************************)
(* history.py, reconstruct_balance_at_date.  A date is the tuple           *)
(* <<year, month, day>>, which Python orders as the model orders tuples;   *)
(* the text "YYYY-MM-DD" is the sequence of its ten characters, the digits *)
(* as numbers.  A ledger entry carries its date either as a date or as     *)
(* such a text.                                                            *)
(***************************************************************************)
MaxTxns == 3

\* d.isoformat()
isoformat(d) ==
    <<d[1] \div 1000, (d[1] \div 100) % 10, (d[1] \div 10) % 10, d[1] % 10, "-",
      d[2] \div 10, d[2] % 10, "-", d[3] \div 10, d[3] % 10>>

\* mutant: day and month read in the other order ("%Y-%d-%m")
strptime_day_first(text) ==
    <<text[1] * 1000 + text[2] * 100 + text[3] * 10 + text[4],
      text[9] * 10 + text[10],
      text[6] * 10 + text[7]>>

\* datetime.strptime(text, "%Y-%m-%d").date()
strptime(text) ==
    <<text[1] * 1000 + text[2] * 100 + text[3] * 10 + text[4],
      text[6] * 10 + text[7],
      text[9] * 10 + text[10]>>

DateValue(d) == [type |-> "date", value |-> d]

StrValue(d) == [type |-> "str", value |-> isoformat(d)]

Txn(date_field, amount) == [date |-> date_field, amount |-> amount]

txn_date(txn) ==
    IF txn.date.type = "str" THEN strptime(txn.date.value) ELSE txn.date.value

\* mutant: entries dated on target_date reversed as well
ReverseOnOrAfter(running, txn, target) ==
    IF ~TupleLess(txn_date(txn), target) THEN running - txn.amount ELSE running

\* the loop body: txn_date > target_date reverses the entry
ReverseIfAfter(running, txn, target) ==
    IF TupleLess(target, txn_date(txn)) THEN running - txn.amount ELSE running

RECURSIVE ReconstructLoop(_, _, _, _)
ReconstructLoop(start, txns, k, target) ==
    IF k = 0 THEN start
    ELSE ReverseIfAfter(ReconstructLoop(start, txns, k - 1, target), txns[k], target)

reconstruct_balance_at_date(start, txns, target) ==
    ReconstructLoop(start, txns, Len(txns), target)

\* ledgers: a year end, a month end and the two days around it, each date
\* given as a date or as text, amounts of either sign (milliunits)
TxnDates == {<<2023, 12, 31>>, <<2024, 1, 31>>, <<2024, 2, 1>>}

TxnAmounts == {-20000, 5000}

TxnValues ==
    {Txn(DateValue(d), a) : d \in TxnDates, a \in TxnAmounts}
        \cup {Txn(StrValue(d), a) : d \in TxnDates, a \in TxnAmounts}

CurrentBalances == {-1000000, 0}

Ledgers == UNION {[1..k -> TxnValues] : k \in 0..MaxTxns}

ReconstructInit ==
    /\ pc = "reconstruct_input"
    /\ current_balance \in CurrentBalances
    /\ transactions \in Ledgers
    /\ target_date \in TxnDates
    /\ reconstructed_balance = 0
    /\ ProjectionIdle
    /\ DbEmpty
    /\ accounts_df = <<>>
    /\ payoff_strategy = "smart"
    /\ strategy = "None"
    /\ active_snowball = 0
    /\ PlanIdle
    /\ NoResults

ReconstructBalanceAtDate ==
    /\ pc = "reconstruct_input"
    /\ reconstructed_balance' =
           reconstruct_balance_at_date(current_balance, transactions, target_date)
    /\ pc' = "reconstructed"
    /\ UNCHANGED <<current_balance, transactions, target_date>>
    /\ UNCHANGED <<payoff_vars, projection_vars, db_vars>>

ReconstructNext == ReconstructBalanceAtDate

ReconstructSpec == ReconstructInit /\ [][ReconstructNext]_vars

(***************************************************************************)
(* history.py, generate_historical_payoff_projections: one action per pass *)
(* of its loop over the snapshots.  generate_payoff_plan_fn is an argument *)
(* of the call; plan_outcomes[i] is what it does when called for snapshot  *)
(* i: it raises, or it returns a plan.                                     *)
(***************************************************************************)
MaxSnapshots == 3

DaysInMonth(y, m) ==
    IF m = 2
    THEN (IF y % 4 = 0 /\ (y % 100 # 0 \/ y % 400 = 0) THEN 29 ELSE 28)
    ELSE IF m \in {4, 6, 9, 11} THEN 30 ELSE 31

\* d + relativedelta(months=k)
AddMonths(d, k) ==
    LET total == d[1] * MonthsPerYear + (d[2] - 1) + k
        y == total \div MonthsPerYear
        m == (total % MonthsPerYear) + 1
    IN  <<y, m, Min(d[3], DaysInMonth(y, m))>>

\* d.strftime("%Y-%m")
MonthText(d) == SubSeq(isoformat(d), 1, 7)

Snapshot(d, accounts) ==
    [month |-> MonthText(d),
     date |-> d,
     accounts |-> accounts,
     total_balance |-> SumColumn(accounts, "balance")]

PlanRaises == [raised |-> "Exception", n |-> 0, cumulative_payments |-> 0,
               orig_total_balance |-> 0]

PlanReturns(n_months, paid, orig) ==
    [raised |-> "", n |-> n_months, cumulative_payments |-> paid,
     orig_total_balance |-> orig]

Projection(snapshot, plan) ==
    [snapshot_month |-> snapshot.month,
     snapshot_date |-> snapshot.date,
     total_balance |-> snapshot.total_balance,
     months_to_payoff |-> plan.n,
     projected_debt_free_date |-> AddMonths(snapshot.date, plan.n),
     total_payments |-> plan.cumulative_payments,
     total_interest |-> plan.cumulative_payments + plan.orig_total_balance,
     num_accounts |-> Len(snapshot.accounts)]

\* mutant: no try/except around the plan call
ProjectionStepUncaught(collected, snapshot, outcome) ==
    IF Len(snapshot.accounts) = 0
    THEN [raised |-> "", projections |-> collected]
    ELSE IF outcome.raised # ""
    THEN [raised |-> outcome.raised, projections |-> collected]
    ELSE [raised |-> "", projections |-> Append(collected, Projection(snapshot, outcome))]

\* the loop body: what leaves the call (nothing) and the projections after it
ProjectionStep(collected, snapshot, outcome) ==
    IF Len(snapshot.accounts) = 0
    THEN [raised |-> "", projections |-> collected]
    ELSE IF outcome.raised # ""
    THEN [raised |-> "", projections |-> collected]
    ELSE [raised |-> "", projections |-> Append(collected, Projection(snapshot, outcome))]

\* snapshots of consecutive months from November 2024, each with no, one or
\* two accounts in debt
FirstSnapshotDate == <<2024, 11, 1>>

SnapshotAccounts ==
    {<<>>,
     <<AccountRow("A", 20, -1000, 25)>>,
     <<AccountRow("A", 20, -900, 25), AccountRow("B", 0, -300, 50)>>}

\* the plan call raises, or returns a plan of 2 or of 14 months
PlanOutcomes(accounts) ==
    IF accounts = <<>> THEN {PlanRaises}
    ELSE {PlanRaises,
          PlanReturns(2, -SumColumn(accounts, "balance"),
                      SumColumn(accounts, "balance")),
          PlanReturns(14, 80 - SumColumn(accounts, "balance"),
                      SumColumn(accounts, "balance"))}

SnapshotLists ==
    UNION {{[i \in 1..k |-> Snapshot(AddMonths(FirstSnapshotDate, i - 1), acc[i])] :
               acc \in [1..k -> SnapshotAccounts]} : k \in 0..MaxSnapshots}

ProjectionInit ==
    /\ pc = "projecting"
    /\ historical_snapshots \in SnapshotLists
    /\ plan_outcomes \in [1..Len(historical_snapshots) -> UNION {PlanOutcomes(a) : a \in SnapshotAccounts}]
    /\ \A i \in 1..Len(historical_snapshots) :
          plan_outcomes[i] \in PlanOutcomes(historical_snapshots[i].accounts)
    /\ snapshot_index = 0
    /\ projections = <<>>
    /\ ReconstructIdle
    /\ DbEmpty
    /\ accounts_df = <<>>
    /\ payoff_strategy \in valid_strategies
    /\ strategy = get_payoff_strategy(payoff_strategy).strategy
    /\ active_snowball = 0
    /\ PlanIdle
    /\ NoResults

ProjectSnapshot ==
    /\ pc = "projecting"
    /\ snapshot_index < Len(historical_snapshots)
    /\ LET step == ProjectionStep(projections,
                       historical_snapshots[snapshot_index + 1],
                       plan_outcomes[snapshot_index + 1])
       IN  /\ projections' = step.projections
           /\ pc' = IF step.raised # "" THEN step.raised ELSE "projecting"
    /\ snapshot_index' = snapshot_index + 1
    /\ UNCHANGED <<historical_snapshots, plan_outcomes>>
    /\ UNCHANGED <<payoff_vars, reconstruct_vars, db_vars>>

ReturnProjections ==
    /\ pc = "projecting"
    /\ snapshot_index = Len(historical_snapshots)
    /\ pc' = "projected"
    /\ UNCHANGED <<payoff_vars, history_vars, db_vars>>

ProjectionNext == ProjectSnapshot \/ ReturnProjections

ProjectionSpec == ProjectionInit /\ [][ProjectionNext]_vars

(***************************************************************************)
(* Claims about calculate_month_payments, checked under AllocSpec.         *)
(***************************************************************************)
Paid == pc \in {"paid", "updated", "increased"}

Offered(row) == row.min_payment + row.overflow + row.snowball

\* C1: every row calculate_month_payments produces has
\* total_payment <= -balance, whatever the frame and the snowball pool.
C1_PaymentNeverExceedsDebt ==
    Paid => \A i \in DOMAIN monthly_payments :
                monthly_payments[i].total_payment <= -monthly_payments[i].balance

\* C1 witness: a debt whose minimum payment, overflow and snowball together
\* exceed what it owes, so that the cap decides the payment.
C1_Witness ==
    /\ Paid
    /\ \E i \in DOMAIN monthly_payments :
          /\ monthly_payments[i].balance < 0
          /\ Offered(monthly_payments[i]) > -monthly_payments[i].balance
          /\ monthly_payments[i].total_payment = -monthly_payments[i].balance

\* C9: with a snowball pool >= 0, every row of an account that owes
\* (balance < 0) and whose minimum payment is positive (adding it moves the
\* balance toward zero) has total_payment >= 0.
C9_PaymentNonNegative ==
    (Paid /\ active_snowball >= 0) =>
        \A i \in DOMAIN monthly_payments :
            (monthly_payments[i].balance < 0 /\ monthly_payments[i].min_payment > 0)
                => monthly_payments[i].total_payment >= 0

\* C9 witness: such a row that also received snowball, after another account.
C9_Witness ==
    /\ Paid
    /\ active_snowball > 0
    /\ \E i \in DOMAIN monthly_payments :
          /\ i > 1
          /\ monthly_payments[i].balance < 0
          /\ monthly_payments[i].min_payment > 0
          /\ monthly_payments[i].snowball > 0
          /\ monthly_payments[i].total_payment > 0

NoOverflowArises ==
    \A i \in DOMAIN monthly_payments_log :
        monthly_payments_log[i].overflow = 0 /\ monthly_payments_log[i].overflow_after = 0

\* C10: with snowball pool 0 and no overflow arising during the round, every
\* account whose minimum payment does not by itself cover its balance
\* (balance + min_payment < 0) gets total_payment = min_payment.
C10_MinimumOnly ==
    (Paid /\ active_snowball = 0 /\ NoOverflowArises) =>
        \A i \in DOMAIN monthly_payments :
            monthly_payments[i].balance + monthly_payments[i].min_payment < 0
                => monthly_payments[i].total_payment = monthly_payments[i].min_payment

\* C10 witness: two accounts, both paying only a positive minimum.
C10_Witness ==
    /\ Paid
    /\ active_snowball = 0
    /\ NoOverflowArises
    /\ Len(monthly_payments) = 2
    /\ \A i \in DOMAIN monthly_payments :
          /\ monthly_payments[i].min_payment > 0
          /\ monthly_payments[i].balance + monthly_payments[i].min_payment < 0
          /\ monthly_payments[i].total_payment = monthly_payments[i].min_payment

\* the scenario of C4 as the specification writes it: minimum payments
\* carry the sign of the balance
C4_ScenarioAsStated ==
    /\ pc = "increased"
    /\ accounts_df = <<AccountRow("A", 0, -100, -100), AccountRow("B", 20, -500, -25)>>
    /\ active_snowball = 0

\* C4 as stated: A (balance -100, min_payment -100, rate 0), B (balance -500,
\* min_payment -25, rate 0.2), pool 0, order [A, B]: A is paid off with
\* total_payment -100 leaving overflow 0, B pays its minimum -25, and the
\* snowball increase is 100.
C4_RolloverAsStated ==
    C4_ScenarioAsStated =>
        /\ monthly_payments[1].total_payment = -100
        /\ new_balances_df[1].balance = 0
        /\ monthly_payments_log[1].overflow_after = 0
        /\ monthly_payments[2].total_payment = -25
        /\ snowball_increase = 100

\* the same scenario with the minimum payments as the program takes them:
\* positive amounts
C4_Scenario ==
    /\ pc = "increased"
    /\ accounts_df = <<AccountRow("A", 0, -100, 100), AccountRow("B", 20, -500, 25)>>
    /\ active_snowball = 0

\* C4 (amended): A (balance -100, min_payment 100, rate 0), B (balance -500,
\* min_payment 25, rate 0.2), pool 0, order [A, B]: A is paid off with
\* total_payment 100 (new balance 0) leaving overflow 0, B pays its minimum
\* 25, and the snowball increase is 100, A's freed minimum payment.
C4_Rollover ==
    C4_Scenario =>
        /\ monthly_payments[1].total_payment = 100
        /\ new_balances_df[1].balance = 0
        /\ monthly_payments_log[1].overflow_after = 0
        /\ monthly_payments[2].total_payment = 25
        /\ snowball_increase = 100

\* C4 witness: the round has run on the scenario.
C4_Witness == C4_Scenario /\ Len(monthly_payments) = 2 /\ snowball_increase > 0

(***************************************************************************)
(* Claims about the ordering strategies, checked under OrderSpec.          *)
(***************************************************************************)
Ordered(name) == pc = "ordered" /\ payoff_strategy = name

\* C5 as stated: under smart, every account with rate 0 stands before every
\* account with rate > 0.
C5_ZeroRateFirstAsStated ==
    Ordered("smart") =>
        \A i, j \in DOMAIN ordering_for_month :
            (ordering_for_month[i].interest_rate = 0
                /\ ordering_for_month[j].interest_rate > 0) => i < j

\* C5 (amended): under smart, every account with rate > 0 stands before
\* every account with rate 0 ([-200 at 0%, -50 at 0%, -900 at 22%] yields
\* the 22% account first).
C5_InterestBearingFirst ==
    Ordered("smart") =>
        \A i, j \in DOMAIN ordering_for_month :
            (ordering_for_month[i].interest_rate > 0
                /\ ordering_for_month[j].interest_rate = 0) => i < j

\* C5 witness: the example of the claim, ordered.
C5_Witness ==
    /\ Ordered("smart")
    /\ accounts_df = <<AccountRow("A", 0, -200, 25), AccountRow("B", 0, -50, 25),
                       AccountRow("C", 22, -900, 25)>>
    /\ ordering_for_month[1].account = "C"

SameGroup(r1, r2) == (r1.interest_rate = 0) <=> (r2.interest_rate = 0)

\* C6 as stated: under smart, the zero-rate accounts stand in descending
\* order of balance and the rate > 0 accounts in ascending order of balance.
C6_GroupOrderAsStated ==
    Ordered("smart") =>
        \A i, j \in DOMAIN ordering_for_month :
            (i < j /\ SameGroup(ordering_for_month[i], ordering_for_month[j])) =>
                IF ordering_for_month[i].interest_rate = 0
                THEN ordering_for_month[i].balance >= ordering_for_month[j].balance
                ELSE ordering_for_month[i].balance <= ordering_for_month[j].balance

\* C6 (amended): under smart, the zero-rate accounts stand in ascending order
\* of balance (largest debt first, -200 before -50) and the rate > 0
\* accounts in descending order of balance (smallest debt first).
C6_GroupOrder ==
    Ordered("smart") =>
        \A i, j \in DOMAIN ordering_for_month :
            (i < j /\ SameGroup(ordering_for_month[i], ordering_for_month[j])) =>
                IF ordering_for_month[i].interest_rate = 0
                THEN ordering_for_month[i].balance <= ordering_for_month[j].balance
                ELSE ordering_for_month[i].balance >= ordering_for_month[j].balance

\* C6 witness: two zero-rate and two interest-bearing accounts of different
\* balances, each pair exchanged by the sort.
C6_Witness ==
    /\ Ordered("smart")
    /\ Len(accounts_df) = 4
    /\ accounts_df[1].interest_rate = 0 /\ accounts_df[2].interest_rate = 0
    /\ accounts_df[1].balance > accounts_df[2].balance
    /\ accounts_df[3].interest_rate > 0 /\ accounts_df[4].interest_rate > 0
    /\ accounts_df[3].balance < accounts_df[4].balance
    /\ Column(ordering_for_month, "account") = <<"D", "C", "B", "A">>

Occurrences(df, row) == Cardinality({i \in DOMAIN df : df[i] = row})

IsPermutationOf(out, in) ==
    /\ Len(out) = Len(in)
    /\ \A i \in DOMAIN in : Occurrences(out, in[i]) = Occurrences(in, in[i])

\* C7: under each strategy get_ordering returns a permutation of its input
\* (every input row exactly once, none dropped, added or altered) and leaves
\* the caller's frame as it was.
C7_OrderingIsPermutation ==
    [][pc' = "ordered" =>
          /\ IsPermutationOf(ordering_for_month', accounts_df)
          /\ accounts_df' = accounts_df]_vars

\* C7 witness: a frame of four accounts that the strategy has rearranged.
C7_Witness ==
    /\ pc = "ordered"
    /\ Len(accounts_df) = 4
    /\ ordering_for_month # accounts_df
    /\ ordering_for_month[1] = accounts_df[4]

\* C8: lowest_balance returns the accounts in non-increasing order of
\* balance, interest_rate in non-increasing order of interest rate.
C8_SimpleStrategiesDescend ==
    /\ Ordered("lowest_balance") =>
          \A i, j \in DOMAIN ordering_for_month :
              i < j => ordering_for_month[i].balance >= ordering_for_month[j].balance
    /\ Ordered("interest_rate") =>
          \A i, j \in DOMAIN ordering_for_month :
              i < j => ordering_for_month[i].interest_rate
                           >= ordering_for_month[j].interest_rate

\* C8 witness: a frame given in strictly ascending order of the key, which
\* the strategy has reversed.
C8_Witness ==
    /\ pc = "ordered"
    /\ Len(accounts_df) = 3
    /\ \/ /\ payoff_strategy = "lowest_balance"
          /\ accounts_df[1].balance < accounts_df[2].balance
          /\ accounts_df[2].balance < accounts_df[3].balance
       \/ /\ payoff_strategy = "interest_rate"
          /\ accounts_df[1].interest_rate < accounts_df[2].interest_rate
          /\ accounts_df[2].interest_rate < accounts_df[3].interest_rate
    /\ Column(ordering_for_month, "account") = <<"C", "B", "A">>

(***************************************************************************)
(* Claims about generate_payoff_plan, checked under Spec.                  *)
(***************************************************************************)
TotalBalance(df) == SumColumn(df, "balance")

\* interest get_new_balances charged in the recorded month m
MonthInterest(m) ==
    SumSeq([k \in 1..Len(m.payments) |->
               Interest(m.payments[k].balance, m.payments[k].total_payment,
                        FirstMatch(m.accounts, m.payments[k].account, "interest_rate"))])

\* C3 as stated, for plans whose accounts all start in debt: in every
\* simulated month the sum of new_balances is >= the sum of the balances the
\* month started with.
C3_DebtNeverGrowsAsStated ==
    (\A i \in DOMAIN accounts_df : accounts_df[i].balance < 0) =>
        \A k \in DOMAIN months :
            TotalBalance(months[k].new_balances) >= TotalBalance(months[k].accounts)

\* C3 (amended): in every simulated month whose total payment is at least the
\* interest charged in that month, the sum of new_balances is >= the sum of
\* the balances the month started with.
C3_DebtNeverGrows ==
    \A k \in DOMAIN months :
        months[k].total_payment >= MonthInterest(months[k])
            => TotalBalance(months[k].new_balances) >= TotalBalance(months[k].accounts)

\* C3 witness: a second month of two accounts in which interest was charged
\* and the payments exceeded it.
C3_Witness ==
    /\ Len(months) >= 2
    /\ Len(months[2].accounts) = 2
    /\ MonthInterest(months[2]) > 0
    /\ months[2].total_payment > MonthInterest(months[2])
    /\ TotalBalance(months[2].new_balances) > TotalBalance(months[2].accounts)

snowball_start == IF months = <<>> THEN active_snowball ELSE months[1].snowball

\* the inputs C2 speaks of
C2_Inputs ==
    /\ Len(accounts_df) >= 1
    /\ \A i \in DOMAIN accounts_df : accounts_df[i].balance < 0
    /\ SumColumn(accounts_df, "min_payment") > 0
    /\ snowball_start >= 0
    /\ snowball_inc >= 0

\* C2 as stated: on those inputs generate_payoff_plan reaches total balance
\* >= 0 after finitely many months.  What a month does is a function of
\* active_accounts_df and active_snowball alone, so a plan that terminates
\* never ends a month without stopping and with both as they were.
C2_TerminatesAsStated ==
    [][(C2_Inputs /\ n' = n + 1) =>
          \/ pc' = "done"
          \/ active_accounts_df' # active_accounts_df
          \/ active_snowball' # active_snowball]_vars

\* every minimum payment is >= 0 and that of an interest-bearing account
\* exceeds one month's interest on its starting balance
C2_MinimumsExceedInterest ==
    \A i \in DOMAIN accounts_df :
        /\ accounts_df[i].min_payment >= 0
        /\ accounts_df[i].interest_rate > 0 =>
              accounts_df[i].min_payment * MonthsPerYear * RateScale
                  > (-accounts_df[i].balance) * accounts_df[i].interest_rate

\* C2 (amended): on those inputs, when also every minimum payment is >= 0 and
\* each interest-bearing account's minimum payment exceeds one month's
\* interest on its starting balance, the plan reaches total balance >= 0
\* after finitely many months: every month that does not end the plan
\* leaves the total debt strictly smaller.
C2_Terminates ==
    [][(C2_Inputs /\ C2_MinimumsExceedInterest /\ n' = n + 1) =>
          \/ pc' = "done"
          \/ TotalBalance(active_accounts_df') > TotalBalance(active_accounts_df)]_vars

\* C2 witness: a finished plan of at least three months for such inputs, one
\* account bearing interest and one without a minimum payment.
C2_Witness ==
    /\ pc = "done"
    /\ C2_Inputs
    /\ C2_MinimumsExceedInterest
    /\ n >= 3
    /\ \E i \in DOMAIN accounts_df : accounts_df[i].interest_rate > 0
    /\ \E i \in DOMAIN accounts_df : accounts_df[i].min_payment = 0

(***************************************************************************)
(* Claims about reconstruct_balance_at_date, checked under ReconstructSpec.*)
(***************************************************************************)
Reconstructed == pc = "reconstructed"

\* the calendar order read off the written form "YYYY-MM-DD"
DigitPositions == {1, 2, 3, 4, 6, 7, 9, 10}

TextBefore(t1, t2) ==
    \E i \in DigitPositions :
        /\ \A j \in DigitPositions : j < i => t1[j] = t2[j]
        /\ t1[i] < t2[i]

DateText(txn) ==
    IF txn.date.type = "str" THEN txn.date.value ELSE isoformat(txn.date.value)

EntriesAfter(txns, target) ==
    {i \in DOMAIN txns : TextBefore(isoformat(target), DateText(txns[i]))}

EntriesOn(txns, target) ==
    {i \in DOMAIN txns : DateText(txns[i]) = isoformat(target)}

\* C11: when no ledger entry is dated strictly after target_date,
\* reconstruct_balance_at_date returns exactly current_balance.
C11_RoundTrip ==
    (Reconstructed /\ EntriesAfter(transactions, target_date) = {})
        => reconstructed_balance = current_balance

\* C11 witness: a ledger of three entries with amounts, one of them dated on
\* target_date and given as text, none later, and the balance came back.
C11_Witness ==
    /\ Reconstructed
    /\ Len(transactions) = 3
    /\ EntriesAfter(transactions, target_date) = {}
    /\ \E i \in EntriesOn(transactions, target_date) :
          /\ transactions[i].date.type = "str"
          /\ transactions[i].amount # 0
    /\ reconstructed_balance = current_balance

RECURSIVE SumAmounts(_, _)
SumAmounts(txns, idx) ==
    IF idx = {} THEN 0
    ELSE LET i == CHOOSE j \in idx : TRUE
         IN  txns[i].amount + SumAmounts(txns, idx \ {i})

Permuted(txns, perm) == [i \in DOMAIN txns |-> txns[perm[i]]]

\* C12: reconstruct_balance_at_date returns current_balance minus the sum of
\* the amounts of exactly the entries dated strictly after target_date, and
\* returns the same for every permutation of the ledger.
C12_SumOfReversals ==
    Reconstructed =>
        /\ reconstructed_balance = current_balance
               - SumAmounts(transactions, EntriesAfter(transactions, target_date))
        /\ \A perm \in Permutations(DOMAIN transactions) :
               reconstruct_balance_at_date(current_balance,
                   Permuted(transactions, perm), target_date) = reconstructed_balance

\* C12 witness: a ledger with an entry before, one on and one after
\* target_date, the later one given as text; only that one was reversed.
C12_Witness ==
    /\ Reconstructed
    /\ Len(transactions) = 3
    /\ \E i, j, k \in DOMAIN transactions :
          /\ TextBefore(DateText(transactions[i]), isoformat(target_date))
          /\ j \in EntriesOn(transactions, target_date)
          /\ k \in EntriesAfter(transactions, target_date)
          /\ transactions[k].date.type = "str"
          /\ reconstructed_balance = current_balance - transactions[k].amount
          /\ reconstructed_balance # current_balance

(***************************************************************************)
(* Further claims about generate_payoff_plan, checked under Spec.          *)
(***************************************************************************)
\* the largest number of months a capped loop would run
SafetyCap == 3

\* the loop is about to start a month in the very state in which it started
\* an earlier one: what a month does is a function of that state, so the
\* total balance never reaches >= 0
Stalled ==
    /\ pc = "running"
    /\ \E k \in DOMAIN months :
          /\ months[k].accounts = active_accounts_df
          /\ months[k].snowball = active_snowball

\* C13: the payoff loop never runs more than a fixed cap of iterations: on a
\* plan that does not converge, its accounts all in debt and paying minimum
\* payments, the call has stopped (with NonConvergence) by the cap instead
\* of running on.
C13_IterationCap == (C2_Inputs /\ Stalled) => n <= SafetyCap

\* C17: n counts the recorded months; the loop runs on only while every
\* recorded month ended with total new balance < 0, and it stops at the
\* first month whose new balances total >= 0, which is the last one recorded
\* (so n >= 1 when the plan is returned).
C17_StopAfterNewBalances ==
    /\ n = Len(months)
    /\ \A k \in 1..(Len(months) - 1) : TotalBalance(months[k].new_balances) < 0
    /\ pc = "running" =>
          \A k \in DOMAIN months : TotalBalance(months[k].new_balances) < 0
    /\ pc = "done" =>
          /\ n >= 1
          /\ TotalBalance(months[n].new_balances) >= 0

\* C17 witness: a plan whose accounts total >= 0 on entry has nevertheless
\* run one month, and a plan of two accounts has stopped in its third month.
C17_Witness ==
    /\ pc = "done"
    /\ \/ TotalBalance(accounts_df) >= 0 /\ n = 1
       \/ /\ Len(accounts_df) = 2
          /\ n = 3
          /\ TotalBalance(months[2].new_balances) < 0
          /\ TotalBalance(months[3].accounts) < 0

\* C18: when the plan is returned, every account in the last month's
\* new_balances has balance >= 0.
C18_NobodyOwesAtTheEnd ==
    pc = "done" =>
        \A i \in DOMAIN months[n].new_balances :
            months[n].new_balances[i].balance >= 0

\* C18 witness: a returned plan of two accounts, one in debt and one in
\* credit on entry, that took more than one month.
C18_Witness ==
    /\ pc = "done"
    /\ n >= 2
    /\ Len(accounts_df) = 2
    /\ \E i, j \in DOMAIN accounts_df :
          accounts_df[i].balance < 0 /\ accounts_df[j].balance > 0

\* minimum payments of the rows of payments whose total_payment equals
\* -balance and is > 0
FreedMinimums(payments) ==
    SumSeq([i \in 1..Len(payments) |->
               IF payments[i].total_payment = -payments[i].balance
                      /\ payments[i].total_payment > 0
               THEN payments[i].min_payment
               ELSE 0])

\* the pool that entered the month after recorded month k
SnowballAfter(k) == IF k = Len(months) THEN active_snowball ELSE months[k + 1].snowball

\* C19: the snowball pool entering month k+1 is the pool entering month k,
\* plus the minimum payments of exactly the accounts whose month-k
\* total_payment equals -balance and is > 0, plus the monthly increment;
\* the snowball the month-k payments used is not deducted.
C19_SnowballCarriesOver ==
    \A k \in DOMAIN months :
        SnowballAfter(k) =
            months[k].snowball + FreedMinimums(months[k].payments) + snowball_inc

\* C19 witness: a month that used snowball and paid an account off was
\* followed by a month whose pool grew by that account's minimum payment and
\* the increment.
C19_Witness ==
    /\ Len(months) >= 2
    /\ snowball_inc > 0
    /\ months[1].snowball > 0
    /\ SumColumn(months[1].payments, "snowball") > 0
    /\ FreedMinimums(months[1].payments) > 0
    /\ months[2].snowball > months[1].snowball + snowball_inc

\* C20: in every month only accounts with balance < 0 reach the ordering
\* strategy and the allocator: no payment row belongs to an account whose
\* balance was already >= 0 (on plans whose accounts all start in debt).
C20_OnlyDebtsAllocated ==
    (\A i \in DOMAIN accounts_df : accounts_df[i].balance < 0) =>
        /\ \A k \in DOMAIN months :
              \A i \in DOMAIN months[k].payments : months[k].payments[i].balance < 0
        /\ \A i \in DOMAIN ordering_for_month : ordering_for_month[i].balance < 0


(***************************************************************************)
(* Claim about get_payoff_strategy, checked under OrderSpec.               *)
(***************************************************************************)
StrategyClasses == {"DumbSnowball", "InterestRateSnowball", "SmartSnowball"}

\* C14: get_payoff_strategy returns a strategy for each of the names smart,
\* lowest_balance and interest_rate; for every other name it fails with an
\* error and returns no strategy.
C14_StrategyOrError ==
    pc # "order_input" =>
        IF payoff_strategy \in {"smart", "lowest_balance", "interest_rate"}
        THEN pc \in {"strategy", "ordered"} /\ strategy \in StrategyClasses
        ELSE pc = "ValueError" /\ strategy = "None" /\ ordering_for_month = <<>>

\* C14 witness: the call has failed on a name that differs from a known one
\* in case only.
C14_Witness ==
    /\ pc = "ValueError"
    /\ payoff_strategy = "Smart"
    /\ strategy = "None"
    /\ Len(accounts_df) >= 1

(***************************************************************************)
(* Claim about generate_historical_payoff_projections, checked under       *)
(* ProjectionSpec.                                                         *)
(***************************************************************************)
PlanSucceeded(i) ==
    /\ historical_snapshots[i].accounts # <<>>
    /\ plan_outcomes[i].raised = ""

PlanFailed(i) ==
    /\ historical_snapshots[i].accounts # <<>>
    /\ plan_outcomes[i].raised # ""

\* the snapshots, in order, that have accounts and whose plan call returned
SucceededSnapshots ==
    SelectSeq([i \in 1..Len(historical_snapshots) |-> i], PlanSucceeded)

\* C15: whatever subset of months the plan call fails for, the call returns,
\* and returns exactly one projection for each snapshot with a non-empty
\* account list whose plan call succeeded, in snapshot order, each carrying
\* what its own snapshot and plan say.
C15_FailuresSkipped ==
    /\ pc \in {"projecting", "projected"}
    /\ pc = "projected" =>
          /\ Len(projections) = Len(SucceededSnapshots)
          /\ \A j \in DOMAIN projections :
                LET i == SucceededSnapshots[j]
                IN  /\ projections[j].snapshot_month = historical_snapshots[i].month
                    /\ projections[j].snapshot_date = historical_snapshots[i].date
                    /\ projections[j].total_balance = historical_snapshots[i].total_balance
                    /\ projections[j].num_accounts = Len(historical_snapshots[i].accounts)
                    /\ projections[j].months_to_payoff = plan_outcomes[i].n
                    /\ projections[j].total_payments = plan_outcomes[i].cumulative_payments

\* C15 witness: three months, the plan call failed for the second; the batch
\* returned the projections of the first and the third.
C15_Witness ==
    /\ pc = "projected"
    /\ Len(historical_snapshots) = 3
    /\ PlanSucceeded(1) /\ PlanFailed(2) /\ PlanSucceeded(3)
    /\ Len(projections) = 2
    /\ projections[2].snapshot_month = historical_snapshots[3].month

(***************************************************************************)
(* db.py: the snapshot store.  A table is the set of its rows; the schema  *)
(* of init_db makes id an AUTOINCREMENT key and snapshot_date UNIQUE.  The *)
(* created_at column (the time of the insert) is left out of the rows.     *)
(* Foreign keys are not enforced (SQLite's default).                       *)
(***************************************************************************)
MaxSaves == 4

\* mutant: snapshot_date not declared UNIQUE, nothing conflicts
ConflictingRowsNone(rows, snapshot_date_text) == {}

\* INSERT OR REPLACE: the rows the UNIQUE(snapshot_date) conflict deletes
ConflictingRows(rows, snapshot_date_text) ==
    {r \in rows : r.snapshot_date = snapshot_date_text}

AccountSnapshotRow(row_id, snapshot_id, account) ==
    [id |-> row_id,
     snapshot_id |-> snapshot_id,
     account_name |-> account.account,
     balance |-> account.balance,
     interest_rate |-> account.interest_rate,
     min_payment |-> account.min_payment,
     projected_payoff_month |-> "None"]

\* save_snapshot on the database db with the arguments a
save_snapshot(db, a) ==
    LET date_text == isoformat(a.snapshot_date)
        snapshot_id == db.sqlite_sequence.payoff_snapshots + 1
        row == [id |-> snapshot_id,
                snapshot_date |-> date_text,
                snapshot_month |-> MonthText(a.snapshot_date),
                total_balance |-> a.total_balance,
                months_to_payoff |-> a.months_to_payoff,
                projected_debt_free_date |-> isoformat(a.projected_debt_free_date),
                total_payments |-> a.total_payments,
                total_interest |-> a.total_interest,
                snowball_amount |-> a.snowball_amount,
                snowball_increase |-> a.snowball_increase,
                strategy |-> a.strategy,
                num_accounts |-> Len(a.accounts),
                source |-> a.source]
        snapshots == (db.payoff_snapshots
                         \ ConflictingRows(db.payoff_snapshots, date_text)) \cup {row}
        dated == {r.id : r \in {q \in snapshots : q.snapshot_date = date_text}}
        remaining == {c \in db.account_snapshots : c.snapshot_id \notin dated}
        inserted == {AccountSnapshotRow(db.sqlite_sequence.account_snapshots + i,
                                        snapshot_id, a.accounts[i]) :
                        i \in 1..Len(a.accounts)}
    IN  [payoff_snapshots |-> snapshots,
         account_snapshots |-> remaining \cup inserted,
         sqlite_sequence |->
             [payoff_snapshots |-> snapshot_id,
              account_snapshots |->
                  db.sqlite_sequence.account_snapshots + Len(a.accounts)]]

\* the save_snapshot call save_projections makes for one projection
ProjectionArgs(projection, snowball_amount, snowball_inc_per_month, strategy_name) ==
    [snapshot_date |-> projection.snapshot_date,
     total_balance |-> projection.total_balance,
     months_to_payoff |-> projection.months_to_payoff,
     projected_debt_free_date |-> projection.projected_debt_free_date,
     accounts |-> <<>>,
     total_payments |-> projection.total_payments,
     total_interest |-> projection.total_interest,
     snowball_amount |-> snowball_amount,
     snowball_increase |-> snowball_inc_per_month,
     strategy |-> strategy_name,
     source |-> "reconstructed"]

RECURSIVE SaveProjectionsLoop(_, _, _, _)
SaveProjectionsLoop(db, calls, k, config) ==
    IF k = 0 THEN db
    ELSE save_snapshot(SaveProjectionsLoop(db, calls, k - 1, config),
                       ProjectionArgs(calls[k], config[1], config[2], config[3]))

\* config is <<snowball_amount, snowball_increase, strategy>>
save_projections(db, calls, config) ==
    SaveProjectionsLoop(db, calls, Len(calls), config)

\* get_all_snapshots: the rows in ascending order of snapshot_date
RECURSIVE OrderByDate(_)
OrderByDate(rows) ==
    IF rows = {} THEN <<>>
    ELSE LET first == CHOOSE r \in rows :
                          \A q \in rows : ~TextBefore(q.snapshot_date, r.snapshot_date)
         IN  <<first>> \o OrderByDate(rows \ {first})

get_all_snapshots(db) == OrderByDate(db.payoff_snapshots)

Db == [payoff_snapshots |-> payoff_snapshots,
       account_snapshots |-> account_snapshots,
       sqlite_sequence |-> sqlite_sequence]

\* projections of November and December 2024, each with a plan of 2 or of 14
\* months
SavedProjections ==
    {Projection(Snapshot(d, <<AccountRow("A", 20, -1000, 25)>>), plan) :
        d \in {<<2024, 11, 1>>, <<2024, 12, 1>>},
        plan \in {PlanReturns(2, 1000, -1000), PlanReturns(14, 1080, -1000)}}

ProjectionLists == UNION {[1..k -> SavedProjections] : k \in 0..2}

SaveConfigs == {<<0, 0, "smart">>, <<100, 50, "lowest_balance">>}

\* arguments of a direct save_snapshot call: with or without account rows
SnapshotArgs ==
    {[ProjectionArgs(saved, 100, 50, "smart")
          EXCEPT !.accounts = accounts, !.source = "current"] :
        saved \in SavedProjections,
        accounts \in {<<>>, <<AccountRow("A", 20, -1000, 25),
                             AccountRow("B", 0, -300, 50)>>}}

DbInit ==
    /\ pc = "db"
    /\ DbEmpty
    /\ ReconstructIdle
    /\ ProjectionIdle
    /\ accounts_df = <<>>
    /\ payoff_strategy = "smart"
    /\ strategy = "None"
    /\ active_snowball = 0
    /\ PlanIdle
    /\ NoResults

SaveSnapshot ==
    /\ pc = "db"
    /\ sqlite_sequence.payoff_snapshots < MaxSaves
    /\ \E a \in SnapshotArgs :
          LET db == save_snapshot(Db, a)
          IN  /\ payoff_snapshots' = db.payoff_snapshots
              /\ account_snapshots' = db.account_snapshots
              /\ sqlite_sequence' = db.sqlite_sequence
              /\ db_call' = [op |-> "save_snapshot", calls |-> <<a>>]
    /\ UNCHANGED <<pc, payoff_vars, history_vars>>

SaveProjections ==
    /\ pc = "db"
    /\ \E calls \in ProjectionLists, config \in SaveConfigs :
          /\ sqlite_sequence.payoff_snapshots + Len(calls) <= MaxSaves
          /\ LET db == save_projections(Db, calls, config)
             IN  /\ payoff_snapshots' = db.payoff_snapshots
                 /\ account_snapshots' = db.account_snapshots
                 /\ sqlite_sequence' = db.sqlite_sequence
                 /\ db_call' = [op |-> "save_projections",
                                calls |-> [i \in 1..Len(calls) |->
                                    ProjectionArgs(calls[i], config[1], config[2],
                                                   config[3])]]
    /\ UNCHANGED <<pc, payoff_vars, history_vars>>

DbNext == SaveSnapshot \/ SaveProjections

DbSpec == DbInit /\ [][DbNext]_vars

(***************************************************************************)
(* Claim about the snapshot store, checked under DbSpec.                   *)
(***************************************************************************)
\* a stored row without its id
Stored(row) ==
    [snapshot_date |-> row.snapshot_date,
     snapshot_month |-> row.snapshot_month,
     total_balance |-> row.total_balance,
     months_to_payoff |-> row.months_to_payoff,
     projected_debt_free_date |-> row.projected_debt_free_date,
     total_payments |-> row.total_payments,
     total_interest |-> row.total_interest,
     snowball_amount |-> row.snowball_amount,
     snowball_increase |-> row.snowball_increase,
     strategy |-> row.strategy,
     num_accounts |-> row.num_accounts,
     source |-> row.source]

StoredProjections(db) ==
    [i \in 1..Len(get_all_snapshots(db)) |-> Stored(get_all_snapshots(db)[i])]

\* the row carries what the save_snapshot call with arguments a gave
CarriesValues(row, a) ==
    /\ row.snapshot_date = isoformat(a.snapshot_date)
    /\ row.total_balance = a.total_balance
    /\ row.months_to_payoff = a.months_to_payoff
    /\ row.projected_debt_free_date = isoformat(a.projected_debt_free_date)
    /\ row.total_payments = a.total_payments
    /\ row.total_interest = a.total_interest
    /\ row.snowball_amount = a.snowball_amount
    /\ row.snowball_increase = a.snowball_increase
    /\ row.strategy = a.strategy
    /\ row.num_accounts = Len(a.accounts)
    /\ row.source = a.source

\* the last of the save_snapshot calls in calls that is for the date of row
LatestFor(row, calls) ==
    LET same == {i \in DOMAIN calls :
                    isoformat(calls[i].snapshot_date) = row.snapshot_date}
    IN  IF same = {} THEN 0 ELSE CHOOSE i \in same : \A j \in same : j <= i

\* C16: after every save_snapshot / save_projections call payoff_snapshots
\* holds at most one row per snapshot_date, the row of each date saved by the
\* call carries the values of the call's last save for that date and the
\* rows of the other dates are as they were; a call that repeats the call
\* before it leaves the stored projections (get_all_snapshots without id) as
\* they were.
C16_UpsertByDate ==
    [][/\ \A r, q \in payoff_snapshots' :
              r.snapshot_date = q.snapshot_date => r = q
       /\ \A i \in DOMAIN db_call'.calls :
              \E r \in payoff_snapshots' :
                  r.snapshot_date = isoformat(db_call'.calls[i].snapshot_date)
       /\ \A r \in payoff_snapshots' :
              IF LatestFor(r, db_call'.calls) = 0
              THEN r \in payoff_snapshots
              ELSE CarriesValues(r, db_call'.calls[LatestFor(r, db_call'.calls)])
       /\ \A r \in payoff_snapshots :
              \E q \in payoff_snapshots' : q.snapshot_date = r.snapshot_date
       /\ (db_call'.op = db_call.op /\ db_call'.calls = db_call.calls)
              => StoredProjections(Db') = StoredProjections(Db)]_vars

\* C16 witness: a save_projections call for two months made the third and
\* fourth save: the table holds exactly the two rows it wrote, every row
\* saved before it having been replaced.
C16_Witness ==
    /\ db_call.op = "save_projections"
    /\ Len(db_call.calls) = 2
    /\ Cardinality(payoff_snapshots) = 2
    /\ sqlite_sequence.payoff_snapshots = 4
    /\ \A i \in {1, 2} :
          \E r \in payoff_snapshots : r.id = i + 2 /\ CarriesValues(r, db_call.calls[i])

(***************************************************************************)
(* Claims about paid-off accounts and balances over a plan, checked under  *)
(* Spec.                                                                   *)
(***************************************************************************)
\* the rows of frame df that belong to account
RowsOf(df, account) == SelectSeq(df, LAMBDA row : row.account = account)

\* C21: once an account's balance is 0 in some month's new_balances, the
\* account is in the new_balances of every later month with balance exactly
\* 0: in each later month it has one row, its payment is 0 and no interest
\* is charged on it.
C21_PaidOffStaysAtZero ==
    \A k, l \in DOMAIN months :
        k < l =>
            \A i \in DOMAIN months[k].new_balances :
                months[k].new_balances[i].balance = 0 =>
                    LET account == months[k].new_balances[i].account
                        later == RowsOf(months[l].new_balances, account)
                        paid == RowsOf(months[l].payments, account)
                    IN  /\ Len(later) = 1
                        /\ later[1].balance = 0
                        /\ \A j \in DOMAIN paid :
                              /\ paid[j].total_payment = 0
                              /\ Interest(paid[j].balance, paid[j].total_payment,
                                          later[1].interest_rate) = 0

\* C21 witness: an interest-bearing account with a minimum payment was paid
\* off in the first month of a plan that ran two more months for the other
\* account.
C21_Witness ==
    /\ Len(months) >= 3
    /\ \E i \in DOMAIN months[1].new_balances :
          /\ months[1].accounts[i].balance < 0
          /\ months[1].accounts[i].interest_rate > 0
          /\ months[1].accounts[i].min_payment > 0
          /\ months[1].new_balances[i].balance = 0
          /\ months[3].new_balances[i].balance = 0
    /\ TotalBalance(months[2].new_balances) < 0

(***************************************************************************)
(* get_new_balances on any frame and any payment rows: payments for some   *)
(* of the accounts only, in the order of the frame or against it.          *)
(***************************************************************************)
\* debts at 0% and 20%, and an account at balance 0
BalanceValues == {<<0, -500, 25>>, <<20, -500, 25>>, <<20, -100, 100>>, <<20, 0, 25>>}

\* payments that leave the debt, clear it exactly or exceed it, and a
\* negative one
PaymentAmounts == {-100, 0, 100, 500}

PaymentRow(row, amount) ==
    [account |-> row.account,
     balance |-> row.balance,
     min_payment |-> row.min_payment,
     overflow |-> 0,
     snowball |-> 0,
     total_payment |-> amount]

Reverse(seq) == [i \in 1..Len(seq) |-> seq[Len(seq) + 1 - i]]

\* the rows of df whose index is in chosen, each with an amount from amounts
PaymentsFor(df, chosen, amounts) ==
    LET picked == SelectSeq([i \in 1..Len(df) |-> i], LAMBDA i : i \in chosen)
    IN  [j \in 1..Len(picked) |-> PaymentRow(df[picked[j]], amounts[picked[j]])]

PaymentFrames(df) ==
    UNION {{PaymentsFor(df, chosen, amounts), Reverse(PaymentsFor(df, chosen, amounts))} :
              chosen \in SUBSET (1..Len(df)), amounts \in [1..Len(df) -> PaymentAmounts]}

BalanceInit ==
    /\ pc = "paid"
    /\ accounts_df \in Frames(MaxAccounts, BalanceValues)
    /\ monthly_payments \in PaymentFrames(accounts_df)
    /\ payoff_strategy = "lowest_balance"
    /\ strategy = "DumbSnowball"
    /\ active_snowball = 0
    /\ PlanIdle
    /\ ordering_for_month = <<>>
    /\ monthly_payments_log = <<>>
    /\ new_balances_df = <<>>
    /\ snowball_increase = 0
    /\ HistoryIdle

BalanceNext == GetNewBalances

BalanceSpec == BalanceInit /\ [][BalanceNext]_vars

(***************************************************************************)
(* Claim about get_new_balances, checked under BalanceSpec.                *)
(***************************************************************************)
\* C22: for each account with a payment row, new_balance is old_balance +
\* total_payment when that is >= 0, and otherwise old_balance +
\* total_payment - (-old_balance * annual_rate / 12); accounts without a
\* payment row keep their balance, and every rate and minimum payment is
\* returned as it was.
C22_NewBalances ==
    pc = "updated" =>
        /\ Len(new_balances_df) = Len(accounts_df)
        /\ \A i \in DOMAIN accounts_df :
              LET old == accounts_df[i]
                  new == new_balances_df[i]
                  paid == RowsOf(monthly_payments, old.account)
              IN  /\ new.account = old.account
                  /\ new.interest_rate = old.interest_rate
                  /\ new.min_payment = old.min_payment
                  /\ new.balance =
                        IF paid = <<>> THEN old.balance
                        ELSE IF old.balance + paid[1].total_payment >= 0
                        THEN old.balance + paid[1].total_payment
                        ELSE old.balance + paid[1].total_payment
                                 - ((-old.balance) * old.interest_rate)
                                       \div (MonthsPerYear * RateScale)

\* C22 witness: of two accounts the second alone has a payment row, which
\* leaves it in debt at a rate > 0: it was charged interest, the first kept
\* its balance.
C22_Witness ==
    /\ pc = "updated"
    /\ Len(accounts_df) = 2
    /\ Len(monthly_payments) = 1
    /\ monthly_payments[1].account = accounts_df[2].account
    /\ accounts_df[1].balance < 0
    /\ accounts_df[2].interest_rate > 0
    /\ monthly_payments[1].total_payment > 0
    /\ new_balances_df[1].balance = accounts_df[1].balance
    /\ new_balances_df[2].balance < 0
    /\ new_balances_df[2].balance
           < accounts_df[2].balance + monthly_payments[1].total_payment

(***************************************************************************)
(* Further claims about balances and totals over a plan, checked under     *)
(* Spec.                                                                   *)
(***************************************************************************)
StartsWithoutCredit == \A i \in DOMAIN accounts_df : accounts_df[i].balance <= 0

\* C23: in a plan started from accounts whose balances are all <= 0 (minimum
\* payments, snowball start, increment and rates >= 0), every balance in
\* every month's new_balances is <= 0.
C23_NeverAboveZero ==
    StartsWithoutCredit =>
        \A k \in DOMAIN months :
            \A i \in DOMAIN months[k].new_balances :
                months[k].new_balances[i].balance <= 0

\* C23 witness: a month in which an account was offered more than it owed,
\* minimum payment and snowball together, and ended at exactly 0 while the
\* other account stayed in debt.
C23_Witness ==
    /\ StartsWithoutCredit
    /\ Len(accounts_df) = 2
    /\ \E k \in DOMAIN months :
          \E i, j \in DOMAIN months[k].payments :
              /\ months[k].payments[i].balance < 0
              /\ months[k].payments[i].snowball > 0
              /\ months[k].payments[i].min_payment + months[k].payments[i].snowball
                     > -months[k].payments[i].balance
              /\ months[k].payments[i].total_payment = -months[k].payments[i].balance
              /\ months[k].payments[j].balance + months[k].payments[j].total_payment < 0
              /\ \A a \in DOMAIN months[k].new_balances :
                    months[k].new_balances[a].balance <= 0

(***************************************************************************)
(* calculate_month_payments on ordered lists in which overflow arises:     *)
(* accounts whose minimum payment exceeds what they owe, followed by       *)
(* accounts that owe more.                                                 *)
(***************************************************************************)
MaxCascadeLen == 3

\* a debt of 100 with minimum payment 400 (300 too much), a debt of 50 with
\* 100 (50 too much), debts that their minimum payment does not cover (one
\* without a minimum payment), an account at balance 0, and a negative
\* minimum payment
CascadeValues ==
    {<<0, -100, 400>>, <<0, -50, 100>>, <<20, -200, 100>>, <<20, -1000, 10>>,
     <<0, -1000, 0>>, <<0, 0, 25>>, <<0, -500, -25>>}

CascadeSnowballs == {-50, 0, 100}

CascadeInit ==
    /\ pc = "alloc_input"
    /\ accounts_df \in Frames(MaxCascadeLen, CascadeValues)
    /\ payoff_strategy = "lowest_balance"
    /\ strategy = "DumbSnowball"
    /\ active_snowball \in CascadeSnowballs
    /\ PlanIdle
    /\ NoResults
    /\ HistoryIdle

CascadeNext == CalculateMonthPayments

CascadeSpec == CascadeInit /\ [][CascadeNext]_vars
CascadeInputsPlain ==
    /\ active_snowball >= 0
    /\ \A i \in DOMAIN accounts_df :
          accounts_df[i].balance <= 0 /\ accounts_df[i].min_payment >= 0

\* C25: the overflow applied to an account (the row's overflow value) is no
\* more than what brings the account to exactly zero after its minimum
\* payment, no more than the overflow available when the account is
\* reached, and 0 when the minimum payment alone covers the balance.
C25_OverflowWithinNeed ==
    (Paid /\ CascadeInputsPlain) =>
        \A i \in DOMAIN monthly_payments :
            LET row == monthly_payments[i]
                still_owed == -(row.balance + row.min_payment)
            IN  IF still_owed > 0
                THEN /\ row.overflow <= still_owed
                     /\ row.overflow <= monthly_payments_log[i].overflow
                ELSE row.overflow = 0
\* C26: when an account's total_payment is capped below min_payment +
\* overflow_to_apply + snowball_to_apply and is not 0, the unused amount is
\* added to overflow, and the next account finds that overflow; when its
\* total_payment is 0, the next account finds overflow 0.
C26_UnusedGoesToOverflow ==
    Paid =>
        \A i \in DOMAIN monthly_payments :
            LET row == monthly_payments[i]
                entry == monthly_payments_log[i]
                unused == Offered(row) - row.total_payment
            IN  /\ (row.total_payment < Offered(row) /\ row.total_payment # 0) =>
                      /\ unused > 0
                      /\ entry.overflow_after
                             = Min(0, entry.overflow - row.overflow) + unused
                /\ row.total_payment = 0 => entry.overflow_after = 0
                /\ i < Len(monthly_payments) =>
                      monthly_payments_log[i + 1].overflow = entry.overflow_after

\* C26 witness: three accounts; the first was offered 300 more than it
\* owed and the second found overflow 300; the second, at balance 0, paid
\* 0 and the third, in debt, found overflow 0.
C26_Witness ==
    /\ Paid
    /\ Len(monthly_payments) = 3
    /\ monthly_payments[1].total_payment > 0
    /\ Offered(monthly_payments[1]) - monthly_payments[1].total_payment = 300
    /\ monthly_payments_log[2].overflow = 300
    /\ monthly_payments[2].total_payment = 0
    /\ monthly_payments_log[3].overflow = 0
    /\ monthly_payments[3].balance < 0

\* The month's accounts are all in debt, with minimum payments and a
\* snowball pool that are not negative.
CascadeInputsInDebt ==
    /\ active_snowball >= 0
    /\ \A i \in DOMAIN accounts_df :
          accounts_df[i].balance < 0 /\ accounts_df[i].min_payment >= 0

\* C27: over accounts in debt, whenever the last account of the month's
\* order is not paid off by its payment, the payments of the month add up
\* to the snowball pool plus all the minimum payments: no capacity is
\* discarded while a later account still owes.
C27_NothingDiscarded ==
    (Paid /\ CascadeInputsInDebt /\ monthly_payments # <<>>) =>
        LET last == monthly_payments[Len(monthly_payments)]
        IN  last.total_payment < -last.balance =>
                SumColumn(monthly_payments, "total_payment") =
                    active_snowball + SumColumn(monthly_payments, "min_payment")

(***************************************************************************)
(* Claim about the account rows of the snapshot store, checked under       *)
(* DbSpec.                                                                 *)
(***************************************************************************)
\* C28: after any sequence of save_snapshot calls every account_snapshots
\* row references a payoff_snapshots row that exists: re-saving a date
\* removed the account rows stored by the earlier save of that date.
C28_AccountRowsReferenceSnapshots ==
    \A c \in account_snapshots :
        \E r \in payoff_snapshots : r.id = c.snapshot_id

(***************************************************************************)
(* Claim about the capacity of one month, checked under CascadeSpec.       *)
(***************************************************************************)
\* C29: in one month's allocation over accounts with balance <= 0,
\* min_payment >= 0 and a snowball pool >= 0, the payments of the month add
\* up to no more than the snowball pool plus the accounts' minimum
\* payments.
C29_NoCapacityCreated ==
    (Paid /\ CascadeInputsPlain) =>
        SumColumn(monthly_payments, "total_payment") <=
            active_snowball + SumColumn(monthly_payments, "min_payment")

\* C29 witness: a month in which one account received overflow and snowball
\* on top of its minimum payment and the payments used the whole supply of
\* pool and minimum payments.
C29_Witness ==
    /\ Paid
    /\ CascadeInputsPlain
    /\ active_snowball > 0
    /\ \E i \in DOMAIN monthly_payments :
          /\ monthly_payments[i].overflow > 0
          /\ monthly_payments[i].snowball > 0
          /\ monthly_payments[i].total_payment = Offered(monthly_payments[i])
    /\ SumColumn(monthly_payments, "total_payment") =
           active_snowball + SumColumn(monthly_payments, "min_payment")

(***************************************************************************)
(* Claim about what a finished plan returns, checked under Spec.           *)
(***************************************************************************)
\* the interest get_new_balances charged over all recorded months
PlanInterest == SumSeq([k \in 1..Len(months) |-> MonthInterest(months[k])])

\* the projection generate_historical_payoff_projections builds from what
\* the plan returns
PlanProjection ==
    Projection(Snapshot(<<2024, 11, 1>>, accounts_df),
               PlanReturns(n, cumulative_payments, orig_total_balance))

\* C30: cumulative_payments is the sum of every month's total_payment; for
\* a plan that has terminated from accounts whose balances were all <= 0,
\* cumulative_payments + orig_total_balance is the interest charged over
\* all months, is >= 0, is 0 when every interest rate is 0, and is the
\* total_interest of the projection built from the plan.
C30_InterestIsPaymentsOverBalance ==
    /\ cumulative_payments =
           SumSeq([k \in 1..Len(months) |-> months[k].total_payment])
    /\ (pc = "done" /\ StartsWithoutCredit) =>
           /\ cumulative_payments + orig_total_balance = PlanInterest
           /\ cumulative_payments + orig_total_balance >= 0
           /\ (\A i \in DOMAIN accounts_df : accounts_df[i].interest_rate = 0) =>
                  cumulative_payments + orig_total_balance = 0
           /\ PlanProjection.total_interest = PlanInterest

\* C30 witness: a plan of two accounts in debt that ended after more than
\* one month and was charged interest.
C30_Witness ==
    /\ pc = "done"
    /\ StartsWithoutCredit
    /\ Len(accounts_df) = 2
    /\ n >= 2
    /\ PlanInterest > 0
    /\ PlanProjection.total_interest = PlanInterest

=============================================================================
